---- MODULE Spec2Model ----
(***************************************************************************)
(* The box model of MicroTeX (src/src/box/box.cpp): Box, BoxGroup and      *)
(* DecorBox, their metrics, the child sequence of a group, the base of a   *)
(* decorator, and the operations copyMetrics, add, add(pos, ...) and       *)
(* lastFontId.                                                             *)
(*                                                                         *)
(* The heap is an arena of named boxes.  sptr<Box> values are the names.   *)
(* A box may be shared between parents (shared_ptr allows it); the callers *)
(* modelled here never build a cycle and never pass a null pointer.        *)
(***************************************************************************)
EXTENDS Integers, Sequences, FiniteSets, TLC

VARIABLES children, base, metrics, call, ret, fault, nops

vars == <<children, base, metrics, call, ret, fault, nops>>

RECURSIVE lastFontId(_)
RECURSIVE ScanChildren(_, _, _)
RECURSIVE ScanForward(_, _, _)
RECURSIVE Reaches(_, _)

(***************************************************************************)
(* Bounds.                                                                 *)
(***************************************************************************)
MaxChildren == 3     \* a group is not grown beyond this many children
MaxOps == 3          \* mutating calls (add, add(pos), copyMetrics) per run

(***************************************************************************)
(* The boxes.                                                              *)
(***************************************************************************)
NO_FONT == -1        \* FontContext::NO_FONT

Glyphs == {"g3", "g5", "g7"}     \* leaf variants that override lastFontId
Plain == {"sp"}                  \* a Box that keeps Box::lastFontId
Groups == {"G1", "G2"}           \* BoxGroup
Decors == {"D1", "D2"}           \* DecorBox

Boxes == Glyphs \cup Plain \cup Groups \cup Decors

\* the intrinsic font id of a glyph leaf
GlyphFontId(b) ==
  CASE b = "g3" -> 3
    [] b = "g5" -> 5
    [] b = "g7" -> 7

\* the base a DecorBox can be constructed around
BaseCandidates(d) ==
  CASE d = "D1" -> {"g7", "G2"}
    [] d = "D2" -> {"D1", "G1"}

\* the metrics a box is constructed with
InitMetrics(b) ==
  IF b \in Glyphs \cup Plain
    THEN [width |-> 5, height |-> 7, depth |-> 2, shift |-> 0]
    ELSE [width |-> 12, height |-> 9, depth |-> 4, shift |-> -1]

NoCall == [op |-> "none", self |-> "none", arg |-> "none", pos |-> 0]

Void == <<>>

(***************************************************************************)
(* Box::lastFontId, BoxGroup::lastFontId, DecorBox::lastFontId.            *)
(***************************************************************************)
Box_lastFontId(b) == NO_FONT

\* the loop of BoxGroup::lastFontId at index i (0-based) with the current id
ScanChildren(g, i, id) ==
  IF i >= 0 /\ id = NO_FONT
    THEN ScanChildren(g, i - 1, lastFontId(children[g][i + 1]))
    ELSE id

\* a scan from the first child to the last
ScanForward(g, i, id) ==
  IF i < Len(children[g]) /\ id = NO_FONT
    THEN ScanForward(g, i + 1, lastFontId(children[g][i + 1]))
    ELSE id

BoxGroup_lastFontId_forward(g) == ScanForward(g, 0, NO_FONT)

\* the last child alone decides
BoxGroup_lastFontId_lastOnly(g) ==
  IF Len(children[g]) = 0 THEN NO_FONT
  ELSE lastFontId(children[g][Len(children[g])])

BoxGroup_lastFontId(g) == ScanChildren(g, Len(children[g]) - 1, NO_FONT)

\* a decorator that keeps the default of Box
DecorBox_lastFontId_default(d) == NO_FONT

DecorBox_lastFontId(d) == lastFontId(base[d])

\* virtual dispatch on the dynamic type of the box
lastFontId(b) ==
  CASE b \in Groups -> BoxGroup_lastFontId(b)
    [] b \in Decors -> DecorBox_lastFontId(b)
    [] b \in Glyphs -> GlyphFontId(b)
    [] OTHER -> Box_lastFontId(b)

(***************************************************************************)
(* std::vector operations used by BoxGroup::add.                           *)
(***************************************************************************)
\* puts the box in front
push_front(s, b) == <<b>> \o s

\* _children.push_back(box)
push_back(s, b) == Append(s, b)

\* insert before the wrong element
insert_after(s, pos, b) ==
  IF pos < Len(s)
    THEN SubSeq(s, 1, pos + 1) \o <<b>> \o SubSeq(s, pos + 2, Len(s))
    ELSE Append(s, b)

\* _children.insert(_children.begin() + pos, box), 0 <= pos <= size()
insert(s, pos, b) == SubSeq(s, 1, pos) \o <<b>> \o SubSeq(s, pos + 1, Len(s))

\* What the build can leave in the vector when begin() + pos is outside
\* [begin(), end()]: the size has grown by one and the elements are not the
\* ones an insertion would give (a moved-from hole, the box at either end).
NullBox == "null"

CorruptOutcomes(s, pos, b) ==
  {Append(s, b), <<b>> \o s}
    \cup (IF Len(s) > 0
            THEN {SubSeq(s, 1, Len(s) - 1) \o <<NullBox, s[Len(s)]>>}
            ELSE {})

\* is box t reachable from box b (b itself, its children, its base)
Reaches(b, t) ==
  \/ b = t
  \/ b \in Groups /\ \E i \in 1..Len(children[b]) : Reaches(children[b][i], t)
  \/ b \in Decors /\ Reaches(base[b], t)

(***************************************************************************)
(* Box::copyMetrics on the metrics of the heap.                            *)
(***************************************************************************)
\* forgets the shift
copyMetricsOf_noShift(m, a, b) ==
  [m EXCEPT ![a] = [width |-> m[b].width, height |-> m[b].height,
                    depth |-> m[b].depth, shift |-> m[a].shift]]

\* also writes the argument
copyMetricsOf_swap(m, a, b) ==
  [m EXCEPT ![a] = m[b], ![b] = m[a]]

copyMetricsOf(m, a, b) ==
  [m EXCEPT ![a] = [width |-> m[b].width, height |-> m[b].height,
                    depth |-> m[b].depth, shift |-> m[b].shift]]

(***************************************************************************)
(* The state after construction.                                           *)
(***************************************************************************)
Init ==
  /\ children = [g \in Groups |-> <<>>]
  /\ base \in {f \in [Decors -> Boxes] : \A d \in Decors : f[d] \in BaseCandidates(d)}
  /\ metrics = [b \in Boxes |-> InitMetrics(b)]
  /\ call = NoCall
  /\ ret = Void
  /\ fault = "none"
  /\ nops = 0

(***************************************************************************)
(* The operations.                                                         *)
(***************************************************************************)
\* a group that recomputes its width from the new child
Add_recompute(g, b) ==
  /\ fault = "none"
  /\ nops < MaxOps
  /\ Len(children[g]) < MaxChildren
  /\ ~Reaches(b, g)
  /\ children' = [children EXCEPT ![g] = push_back(@, b)]
  /\ metrics' = [metrics EXCEPT ![g].width = @ + metrics[b].width]
  /\ call' = [op |-> "add", self |-> g, arg |-> b, pos |-> 0]
  /\ ret' = Void
  /\ nops' = nops + 1
  /\ UNCHANGED <<base, fault>>

\* BoxGroup::add(const sptr<Box>&)
Add(g, b) ==
  /\ fault = "none"
  /\ nops < MaxOps
  /\ Len(children[g]) < MaxChildren
  /\ ~Reaches(b, g)
  /\ children' = [children EXCEPT ![g] = push_back(@, b)]
  /\ call' = [op |-> "add", self |-> g, arg |-> b, pos |-> 0]
  /\ ret' = Void
  /\ nops' = nops + 1
  /\ UNCHANGED <<base, metrics, fault>>

\* BoxGroup::add(int, const sptr<Box>&)
AddAt(g, pos, b) ==
  /\ fault = "none"
  /\ nops < MaxOps
  /\ Len(children[g]) < MaxChildren
  /\ ~Reaches(b, g)
  /\ call' = [op |-> "addAt", self |-> g, arg |-> b, pos |-> pos]
  /\ ret' = Void
  /\ nops' = nops + 1
  /\ IF 0 <= pos /\ pos <= Len(children[g])
       THEN /\ children' = [children EXCEPT ![g] = insert(@, pos, b)]
            /\ UNCHANGED fault
       ELSE \* begin() + pos is not an iterator of the vector: undefined
            \/ /\ fault' = "segv"
               /\ UNCHANGED children
            \/ /\ fault' = "corrupt"
               /\ \E s \in CorruptOutcomes(children[g], pos, b) :
                    children' = [children EXCEPT ![g] = s]
  /\ UNCHANGED <<base, metrics>>

\* Box::copyMetrics(const sptr<Box>&)
CopyMetrics(a, b) ==
  /\ fault = "none"
  /\ nops < MaxOps
  /\ metrics' = copyMetricsOf(metrics, a, b)
  /\ call' = [op |-> "copyMetrics", self |-> a, arg |-> b, pos |-> 0]
  /\ ret' = Void
  /\ nops' = nops + 1
  /\ UNCHANGED <<children, base, fault>>

\* a query that drops the trailing children it has skipped
LastFontIdCall_consume(b) ==
  /\ fault = "none"
  /\ ret' = <<lastFontId(b)>>
  /\ call' = [op |-> "lastFontId", self |-> b, arg |-> "none", pos |-> 0]
  /\ children' = [g \in Groups |->
                    IF g = b /\ Len(children[g]) > 0 /\
                       lastFontId(children[g][Len(children[g])]) = NO_FONT
                      THEN SubSeq(children[g], 1, Len(children[g]) - 1)
                      ELSE children[g]]
  /\ UNCHANGED <<base, metrics, fault, nops>>

\* a call of the virtual lastFontId() on box b
LastFontIdCall(b) ==
  /\ fault = "none"
  /\ ret' = <<lastFontId(b)>>
  /\ call' = [op |-> "lastFontId", self |-> b, arg |-> "none", pos |-> 0]
  /\ UNCHANGED <<children, base, metrics, fault, nops>>

Next ==
  \/ \E g \in Groups, b \in Boxes : Add(g, b)
  \/ \E g \in Groups, b \in Boxes :
       \E pos \in -1..(Len(children[g]) + 1) : AddAt(g, pos, b)
  \/ \E a \in Boxes, b \in Boxes : CopyMetrics(a, b)
  \/ \E b \in Boxes : LastFontIdCall(b)

Spec == Init /\ [][Next]_vars

TypeOK ==
  /\ \A g \in Groups : Len(children[g]) <= MaxChildren
  /\ \A d \in Decors : base[d] \in Boxes
  /\ fault \in {"none", "segv", "corrupt"}
  /\ nops \in 0..MaxOps

(***************************************************************************)
(* Helpers of the properties.                                              *)
(***************************************************************************)
MutatingStep(name) == nops' = nops + 1 /\ call'.op = name

QueryStep == call'.op = "lastFontId" /\ fault' = "none"

MaxOf(S) == CHOOSE x \in S : \A y \in S : y <= x

\* the indices of the children of g whose lastFontId is a real font id
NonSentinel(g) ==
  {i \in 1..Len(children[g]) : lastFontId(children[g][i]) # NO_FONT}

Leaves == Glyphs \cup Plain

(***************************************************************************)
(* C1: BoxGroup.lastFontId() returns the lastFontId() of the child with    *)
(* the greatest index whose result is not NO_FONT, whatever the children   *)
(* before it yield; NO_FONT when every child yields NO_FONT or the group   *)
(* is empty.                                                               *)
(***************************************************************************)
C1_BackwardScan ==
  (call.op = "lastFontId" /\ call.self \in Groups) =>
    ret = <<IF NonSentinel(call.self) = {}
              THEN NO_FONT
              ELSE lastFontId(children[call.self][MaxOf(NonSentinel(call.self))])>>

\* children [Y, X, sentinel]: the answer is X, not Y
C1_Witness ==
  /\ call.op = "lastFontId" /\ call.self \in Groups
  /\ Len(children[call.self]) = 3
  /\ lastFontId(children[call.self][3]) = NO_FONT
  /\ lastFontId(children[call.self][2]) # NO_FONT
  /\ lastFontId(children[call.self][1]) # NO_FONT
  /\ lastFontId(children[call.self][1]) # lastFontId(children[call.self][2])
  /\ ret = <<lastFontId(children[call.self][2])>>

(***************************************************************************)
(* C2: add(position, box) with position < 0 or position > child count      *)
(* fails with an out-of-range error and leaves the child sequence as it    *)
(* was.                                                                    *)
(***************************************************************************)
C2_OutOfRangeFails ==
  [][(MutatingStep("addAt") /\
      (call'.pos < 0 \/ call'.pos > Len(children[call'.self])))
       => (fault' = "out_of_range" /\ children' = children)]_vars

(***************************************************************************)
(* C3: add(p, box) with 0 <= p <= n gives n+1 children, box at index p,    *)
(* the children before p where they were and those from p on one index     *)
(* later; add(n, box) gives the sequence add(box) gives.                   *)
(***************************************************************************)
C3_InsertShifts ==
  [][(MutatingStep("addAt") /\
      0 <= call'.pos /\ call'.pos <= Len(children[call'.self]))
       => LET g == call'.self
              p == call'.pos
              old == children[g]
              new == children'[g]
          IN  /\ fault' = "none"
              /\ Len(new) = Len(old) + 1
              /\ new[p + 1] = call'.arg
              /\ \A i \in 1..p : new[i] = old[i]
              /\ \A i \in (p + 1)..Len(old) : new[i + 1] = old[i]
              /\ (p = Len(old) => new = push_back(old, call'.arg))
              /\ \A h \in Groups \ {g} : children'[h] = children[h]]_vars

\* an insertion in the middle of a group
C3_Witness ==
  /\ call.op = "addAt" /\ fault = "none"
  /\ call.pos = 1
  /\ Len(children[call.self]) = 3
  /\ children[call.self][2] = call.arg
  /\ children[call.self][1] # call.arg
  /\ children[call.self][3] # call.arg
  /\ children[call.self][1] # children[call.self][3]

(***************************************************************************)
(* C4: add(box) makes box the last child, the count grows by exactly one   *)
(* and every earlier child keeps its index.                                *)
(***************************************************************************)
C4_AppendKeepsOrder ==
  [][MutatingStep("add")
       => LET g == call'.self
              old == children[g]
              new == children'[g]
          IN  /\ fault' = "none"
              /\ Len(new) = Len(old) + 1
              /\ new[Len(new)] = call'.arg
              /\ \A i \in 1..Len(old) : new[i] = old[i]
              /\ \A h \in Groups \ {g} : children'[h] = children[h]]_vars

\* the third append to a group of two different children
C4_Witness ==
  /\ call.op = "add" /\ fault = "none"
  /\ Len(children[call.self]) = 3
  /\ children[call.self][3] = call.arg
  /\ children[call.self][1] # call.arg
  /\ children[call.self][2] # children[call.self][1]

(***************************************************************************)
(* C5: after A.copyMetrics(B) the width, height, depth and shift of A are  *)
(* those of B, and the call has not failed.                                *)
(***************************************************************************)
C5_MetricsCopied ==
  call.op = "copyMetrics" =>
    /\ fault = "none"
    /\ metrics[call.self].width = metrics[call.arg].width
    /\ metrics[call.self].height = metrics[call.arg].height
    /\ metrics[call.self].depth = metrics[call.arg].depth
    /\ metrics[call.self].shift = metrics[call.arg].shift

\* a copy that has changed all four fields of A
C5_Witness ==
  /\ call.op = "copyMetrics"
  /\ call.self # call.arg
  /\ metrics[call.self].width # InitMetrics(call.self).width
  /\ metrics[call.self].height # InitMetrics(call.self).height
  /\ metrics[call.self].depth # InitMetrics(call.self).depth
  /\ metrics[call.self].shift # InitMetrics(call.self).shift

(***************************************************************************)
(* C6: A.copyMetrics(B) changes only the metrics of A: the metrics of B    *)
(* and of every other box, every child sequence and every base stay as     *)
(* they were.                                                              *)
(***************************************************************************)
C6_CopyFrame ==
  [][MutatingStep("copyMetrics")
       => /\ children' = children
          /\ base' = base
          /\ metrics'[call'.arg] = metrics[call'.arg]
          /\ \A x \in Boxes \ {call'.self} : metrics'[x] = metrics[x]]_vars

\* a copy into a group that has children, from a box with other metrics
C6_Witness ==
  /\ call.op = "copyMetrics"
  /\ call.self \in Groups
  /\ Len(children[call.self]) >= 2
  /\ call.arg \in Leaves
  /\ metrics[call.self] # InitMetrics(call.self)
  /\ metrics[call.arg] = InitMetrics(call.arg)

(***************************************************************************)
(* C7: DecorBox.lastFontId() is the lastFontId() of its base, also when    *)
(* the base is a BoxGroup or a DecorBox; the group                         *)
(* [BoxGroup[leaf with font 3], DecorBox(leaf with font 7)] answers 7.     *)
(***************************************************************************)
IsScenario7(g) ==
  /\ g \in Groups
  /\ Len(children[g]) = 2
  /\ children[g][1] \in Groups
  /\ children[children[g][1]] = <<"g3">>
  /\ children[g][2] \in Decors
  /\ base[children[g][2]] = "g7"

C7_DecorDelegates ==
  /\ (call.op = "lastFontId" /\ call.self \in Decors)
       => ret = <<lastFontId(base[call.self])>>
  /\ (call.op = "lastFontId" /\ call.self = "D2" /\ base["D2"] = "D1")
       => ret = <<lastFontId(base["D1"])>>
  /\ (call.op = "lastFontId" /\ IsScenario7(call.self)) => ret = <<7>>

C7_Witness ==
  /\ call.op = "lastFontId"
  /\ IsScenario7(call.self)
  /\ ret = <<7>>

(***************************************************************************)
(* C8: for a group whose children are a leaf with font id 5 followed by a  *)
(* leaf with NO_FONT, lastFontId() returns NO_FONT.                        *)
(***************************************************************************)
IsScenario8(g) ==
  /\ g \in Groups
  /\ children[g] = <<"g5", "sp">>

C8_LastChildWins ==
  (call.op = "lastFontId" /\ IsScenario8(call.self)) => ret = <<NO_FONT>>

(***************************************************************************)
(* C8 as amended: for that group lastFontId() returns 5, the font id of    *)
(* the earlier child; the trailing NO_FONT leaf is skipped.                *)
(***************************************************************************)
C8_EarlierFontWins ==
  (call.op = "lastFontId" /\ IsScenario8(call.self)) => ret = <<5>>

C8_Witness ==
  /\ call.op = "lastFontId"
  /\ IsScenario8(call.self)
  /\ lastFontId("g5") = 5
  /\ lastFontId("sp") = NO_FONT
  /\ ret = <<5>>

(***************************************************************************)
(* C9: a lastFontId() call on any box changes no metrics, no child         *)
(* sequence and no base, and a second call on the same box right after     *)
(* the first returns what the first returned.                              *)
(***************************************************************************)
C9_QueryIsPure ==
  [][QueryStep
       => /\ children' = children
          /\ base' = base
          /\ metrics' = metrics
          /\ (call.op = "lastFontId" /\ call.self = call'.self) => ret' = ret]_vars

\* a query on a group that has skipped a trailing child without a font
C9_Witness ==
  /\ call.op = "lastFontId" /\ call.self \in Groups
  /\ Len(children[call.self]) >= 2
  /\ lastFontId(children[call.self][Len(children[call.self])]) = NO_FONT
  /\ ret # <<NO_FONT>>

(***************************************************************************)
(* C10: the width, height, depth or shift of a box changes only in a       *)
(* copyMetrics call on that box; add(box) and add(position, box) leave the *)
(* metrics of the group, of the added box and of every other box alone.    *)
(***************************************************************************)
C10_MetricsOnlyByCopy ==
  [][\A x \in Boxes :
       metrics'[x] # metrics[x]
         => (MutatingStep("copyMetrics") /\ call'.self = x)]_vars

\* a child added to a group whose metrics an earlier copy has overwritten
C10_Witness ==
  /\ call.op \in {"add", "addAt"} /\ fault = "none"
  /\ metrics[call.self] # InitMetrics(call.self)
  /\ metrics[call.arg] # metrics[call.self]
====
